---- MODULE Spec2Model ----
(***************************************************************************)
(* The QCar line-following harness: the control process (EVLFControl), the *)
(* observer process (EVLFObserver), the shared event-flag structure        *)
(* (EventWrapper) that couples them, and the one-shot QLabs bootstrap      *)
(* (qlabs_setup.setup).                                                    *)
(*                                                                         *)
(* Units.  Floats of the source are fixed-point integers:                  *)
(*   steering          hundredths of a radian                              *)
(*   policy throttle   hundredths                 (0.1  -> 10)             *)
(*   |cos(2*steering)| thousandths                (1.0  -> 1000)           *)
(*   reduce_factor     hundredths                 (0.67 -> 67)             *)
(*   command throttle  the exact product of the three, in 10^-7            *)
(*   stop time         tenths of a second         (0.1  -> 1, 3 -> 30)     *)
(***************************************************************************)
EXTENDS Integers, Sequences, FiniteSets

VARIABLES
    \* ---- shared between the two processes (EventWrapper)
    event,          \* event_wrapper.event: the multiprocessing Event
    event_types,    \* event_wrapper.event_types: key -> BOOLEAN
    \* ---- control process (EVLFControl)
    cpc,            \* position of the control process
    ctorThrottle,   \* the throttle argument given to EVLFControl(...)
    policyThrottle, \* self.policy.throttle
    policySteering, \* self.policy.steering
    reduce_factor,  \* self.reduce_factor
    halt_steering,  \* self.halt_steering
    stop_time,      \* e.stop_time of the StopException in flight (0: none)
    command,        \* the last command given to running_gear.read_write_std
    seenEvent,      \* what event.is_set() returned in this cycle
    seen,           \* what each shared_events[key] read returned, last time it was read
    cyc,            \* the calls made so far in the current control cycle
    outcome,        \* how the last finished control cycle ended
    \* ---- observer process (EVLFObserver)
    opc,            \* position of the observer process
    oidx,           \* position of the for loop over detection_flags.items()
    frame,          \* what rgbd.read_rgb_image() returned last: "none" or "image"
    detection,      \* self.pipeline.detection_flags
    \* ---- history of the observer's writes, for the claims
    lastWritten,    \* key -> the value the observer wrote last for the key
    pending,        \* key -> published true and no halt command written since
    \* ---- bootstrap script (qlabs_setup.setup)
    bootArgs,       \* the arguments setup(...) was called with
    qlabsOpen,      \* how qlabs.open went: "untried", "connected" or "refused"
    bpc,            \* position of the bootstrap
    bootLog,        \* the QLabs calls made so far, each with its arguments
    \* ---- a plain VLFCar driven by VLFCar.execute
    vpc,            \* position of the car's loop
    vThrottle,      \* self.policy.throttle
    vSteering,      \* self.policy.steering
    vCommand,       \* the last command given to running_gear.read_write_std
    vCyc,           \* the calls made so far in the current cycle
    vOutcome,       \* how the last finished cycle ended
    \* ---- history of one handle_events call, for the claims
    history,        \* which history is recorded: "none", "start_flags" or "frames"
    startFlags,     \* the shared flags as they were when the cycle started
    seenAge,        \* key -> how many frames old the value read in this call is
    quiet,          \* the observer has been outside its loop over the flags
                    \* since this call tested the event
    \* ---- a bounded queue fed through handle_interprocess
    queue,          \* the items in data_queue, oldest first
    hasConsumer,    \* whether another process takes items from data_queue
    hpc,            \* position of the caller of handle_interprocess
    hArgs,          \* the arguments of the call: item, block, timeout
    hRaised         \* the exception that left handle_interprocess ("none": none)

shared   == <<event, event_types>>
ctlVars  == <<cpc, ctorThrottle, policyThrottle, policySteering, reduce_factor,
              halt_steering, stop_time, command, seenEvent, seen, cyc, outcome>>
obsVars  == <<opc, oidx, frame, detection>>
histVars == <<lastWritten, pending>>
bootVars == <<bootArgs, qlabsOpen, bpc, bootLog>>
carVars  == <<vpc, vThrottle, vSteering, vCommand, vCyc, vOutcome>>
auxVars  == <<history, startFlags, seenAge, quiet>>
queueVars == <<queue, hasConsumer, hpc, hArgs, hRaised>>
vars     == <<shared, ctlVars, obsVars, histVars, bootVars, carVars, auxVars,
              queueVars>>

----------------------------------------------------------------------------
\* Program constants

\* setup(self, throttle: float = 0.1)
DefaultThrottle == 10
\* self.reduce_factor = 0.67
ReducedFactor == 67
\* self.reduce_factor = 1.0
FullFactor == 100
\* raise StopException(stop_time=0.1)
RedLightStopTime == 1
\* stop_time = 3
StopSignStopTime == 30

\* The keys handle_events reads; the observer's detection_flags carry the same keys.
Keys == {"horizontal_line", "red_light", "stop_sign"}
\* The order in which detection_flags.items() yields the keys.
KeyOrder == <<"horizontal_line", "red_light", "stop_sign">>
\* The keys whose flag makes handle_events raise StopException.
StopKeys == {"red_light", "stop_sign"}

\* The throttle arguments a caller may give to EVLFControl(event_wrapper, throttle=t).
ThrottleArgs == {DefaultThrottle, 30}
\* The steering angles the policy may compute: 0, 0.5, ... rad.
MaxSteering == 1
Steerings == {50 * i : i \in 0..MaxSteering}

\* abs(math.cos(2.0 * steering)) in thousandths:
\* cos(0) = 1.000, cos(1.0) = 0.540, cos(2.0) = -0.416, cos(3.0) = -0.990.
AbsCos2(s) ==
    CASE s = 0   -> 1000
      [] s = 50  -> 540
      [] s = 100 -> 416
      [] s = 150 -> 990

NoCommand == [kind |-> "none", throttle |-> 0, steering |-> 0]

----------------------------------------------------------------------------
\* The shared structure (EventWrapper): one Event and one boolean per key.

\* events.set(key): the key's flag becomes true and the event is set.
EventSet(k) ==
    /\ event_types' = [event_types EXCEPT ![k] = TRUE]
    /\ event' = TRUE

\* events.clear(key): the key's flag becomes false; the event stays set as
\* long as some flag is still true.
EventClear(k) ==
    /\ event_types' = [event_types EXCEPT ![k] = FALSE]
    /\ event' = (\E j \in Keys \ {k} : event_types[j])

----------------------------------------------------------------------------
\* History of one handle_events call.  It is recorded only in the
\* specifications that set `history`, and it is read by no step of the program.

\* How many frames back a value read for a call may be told apart.
MaxAge == 2
Unread == MaxAge + 1

KeyPos(k) == CHOOSE i \in DOMAIN KeyOrder : KeyOrder[i] = k

\* The frame the key's present value was written in: 0 for the frame the
\* observer read last, 1 for the one before it (the loop over the flags has
\* not reached the key yet).
SrcAge(k) == IF oidx # 0 /\ KeyPos(k) >= oidx THEN 1 ELSE 0

\* execute is called: the flags as they are now, and no flag read yet.
RecordStart ==
    /\ startFlags' = IF history = "start_flags" THEN event_types ELSE startFlags
    /\ seenAge' = IF history = "frames" THEN [k \in Keys |-> Unread] ELSE seenAge
    /\ quiet' = IF history = "frames" THEN oidx = 0 ELSE quiet
    /\ UNCHANGED history

\* handle_events reads shared_events[k].
RecordRead(k) ==
    /\ seenAge' = IF history = "frames"
                    THEN [seenAge EXCEPT ![k] = SrcAge(k)]
                    ELSE seenAge
    /\ UNCHANGED <<history, startFlags, quiet>>

\* The observer reads a new frame while handle_events is between its reads:
\* every value read so far is one frame older.
InCall == history = "frames" /\ cpc \in {"h_line", "h_red", "h_stop"}

RecordFrame ==
    /\ seenAge' = IF InCall
                    THEN [k \in Keys |->
                            IF seenAge[k] >= MaxAge THEN seenAge[k]
                                                   ELSE seenAge[k] + 1]
                    ELSE seenAge
    /\ quiet' = IF InCall THEN FALSE ELSE quiet
    /\ UNCHANGED <<history, startFlags>>

----------------------------------------------------------------------------
\* The control process: EVLFControl

Append1(tag) == cyc' = Append(cyc, tag)

\* shared_events[key]: a read of the shared structure at the moment it happens.
ReadFlagOther(k) == event_types["stop_sign"]
ReadFlag(k) == event_types[k]

\* self.reduce_factor in the branch where the event is set.
FactorOnLineSticky(hl) == IF hl THEN ReducedFactor ELSE reduce_factor
FactorOnLine(hl) == IF hl THEN ReducedFactor ELSE FullFactor

\* self.reduce_factor in the branch where the event is not set.
FactorNoEventStale == reduce_factor
FactorNoEvent == FullFactor

\* self.halt_steering of the stop_sign branch.
StopHaltSteering == 0

\* self.halt_steering of the red_light branch.
RedHaltSteeringZero == StopHaltSteering
RedHaltSteering == policySteering

\* throttle of halt_car's read_write_std.
HaltThrottle == 0
HaltCommandDriving == [kind |-> "halt", throttle |-> DefaultThrottle,
                       steering |-> halt_steering]
HaltCommand == [kind |-> "halt", throttle |-> HaltThrottle,
                steering |-> halt_steering]

\* policy.throttle * abs(math.cos(2.0 * steering)) * reduce_factor
DriveThrottle == policyThrottle * AbsCos2(policySteering) * reduce_factor

\* VLFCar.setup() with its default argument: the policy is built with
\* throttle = 0.1, whatever was given to the constructor.
Setup ==
    /\ cpc = "new"
    /\ policyThrottle' = DefaultThrottle
    /\ policySteering' = 0
    /\ cpc' = "idle"
    /\ UNCHANGED <<ctorThrottle, reduce_factor, halt_steering, stop_time, command,
                   seenEvent, seen, cyc, outcome>>
    /\ UNCHANGED <<shared, obsVars, histVars, bootVars, carVars, auxVars, queueVars>>

\* execute() is called; handle_events tests event.is_set().
HandleEvents_IsSet ==
    /\ cpc = "idle"
    /\ cyc' = <<"handle_events">>
    /\ outcome' = "running"
    /\ stop_time' = 0
    /\ seenEvent' = event
    /\ IF event
         THEN /\ cpc' = "h_line"
              /\ UNCHANGED reduce_factor
         ELSE /\ reduce_factor' = FactorNoEvent
              /\ cpc' = "read_image"
    /\ UNCHANGED <<ctorThrottle, policyThrottle, policySteering, halt_steering,
                   command, seen>>
    /\ UNCHANGED <<shared, obsVars, histVars, bootVars, carVars, queueVars>>
    /\ RecordStart

\* if shared_events['horizontal_line']: ... else: ...
HandleEvents_HorizontalLine ==
    /\ cpc = "h_line"
    /\ LET v == ReadFlag("horizontal_line") IN
         /\ seen' = [seen EXCEPT !["horizontal_line"] = v]
         /\ reduce_factor' = FactorOnLine(v)
    /\ cpc' = "h_red"
    /\ UNCHANGED <<ctorThrottle, policyThrottle, policySteering, halt_steering,
                   stop_time, command, seenEvent, cyc, outcome>>
    /\ UNCHANGED <<shared, obsVars, histVars, bootVars, carVars, queueVars>>
    /\ RecordRead("horizontal_line")

\* if shared_events['red_light']: raise StopException(stop_time=0.1)
HandleEvents_RedLightIgnored ==
    /\ cpc = "h_red"
    /\ seen' = [seen EXCEPT !["red_light"] = ReadFlag("red_light")]
    /\ cpc' = "h_stop"
    /\ UNCHANGED <<ctorThrottle, policyThrottle, policySteering, reduce_factor,
                   halt_steering, stop_time, command, seenEvent, cyc, outcome>>
    /\ UNCHANGED <<shared, obsVars, histVars, bootVars, carVars, queueVars>>
    /\ RecordRead("red_light")
HandleEvents_RedLight ==
    /\ cpc = "h_red"
    /\ LET v == ReadFlag("red_light") IN
         /\ seen' = [seen EXCEPT !["red_light"] = v]
         /\ IF v
              THEN /\ halt_steering' = RedHaltSteering
                   /\ stop_time' = RedLightStopTime
                   /\ cpc' = "halt"
              ELSE /\ cpc' = "h_stop"
                   /\ UNCHANGED <<halt_steering, stop_time>>
    /\ UNCHANGED <<ctorThrottle, policyThrottle, policySteering, reduce_factor,
                   command, seenEvent, cyc, outcome>>
    /\ UNCHANGED <<shared, obsVars, histVars, bootVars, carVars, queueVars>>
    /\ RecordRead("red_light")

\* if shared_events['stop_sign']: raise StopException(stop_time=3)
HandleEvents_StopSignIgnored ==
    /\ cpc = "h_stop"
    /\ seen' = [seen EXCEPT !["stop_sign"] = ReadFlag("stop_sign")]
    /\ cpc' = "read_image"
    /\ UNCHANGED <<ctorThrottle, policyThrottle, policySteering, reduce_factor,
                   halt_steering, stop_time, command, seenEvent, cyc, outcome>>
    /\ UNCHANGED <<shared, obsVars, histVars, bootVars, carVars, queueVars>>
    /\ RecordRead("stop_sign")
HandleEvents_StopSignLatched ==
    /\ cpc = "h_stop"
    /\ LET v == ReadFlag("stop_sign") IN
         /\ seen' = [seen EXCEPT !["stop_sign"] = v]
         /\ IF v /\ command.kind # "halt"
              THEN /\ halt_steering' = StopHaltSteering
                   /\ stop_time' = StopSignStopTime
                   /\ cpc' = "halt"
              ELSE /\ cpc' = "read_image"
                   /\ UNCHANGED <<halt_steering, stop_time>>
    /\ UNCHANGED <<ctorThrottle, policyThrottle, policySteering, reduce_factor,
                   command, seenEvent, cyc, outcome>>
    /\ UNCHANGED <<shared, obsVars, histVars, bootVars, carVars, queueVars>>
    /\ RecordRead("stop_sign")
HandleEvents_StopSign ==
    /\ cpc = "h_stop"
    /\ LET v == ReadFlag("stop_sign") IN
         /\ seen' = [seen EXCEPT !["stop_sign"] = v]
         /\ IF v
              THEN /\ halt_steering' = StopHaltSteering
                   /\ stop_time' = StopSignStopTime
                   /\ cpc' = "halt"
              ELSE /\ cpc' = "read_image"
                   /\ UNCHANGED <<halt_steering, stop_time>>
    /\ UNCHANGED <<ctorThrottle, policyThrottle, policySteering, reduce_factor,
                   command, seenEvent, cyc, outcome>>
    /\ UNCHANGED <<shared, obsVars, histVars, bootVars, carVars, queueVars>>
    /\ RecordRead("stop_sign")

\* csi_image = self.front_csi.read_image(): an image, or NoImageException,
\* which execute catches and passes.
ReadImage ==
    /\ cpc = "read_image"
    /\ Append1("read_image")
    /\ \/ /\ cpc' = "policy"
          /\ UNCHANGED outcome
       \/ /\ cpc' = "idle"
          /\ outcome' = "no_image"
    /\ UNCHANGED <<ctorThrottle, policyThrottle, policySteering, reduce_factor,
                   halt_steering, stop_time, command, seenEvent, seen>>
    /\ UNCHANGED <<shared, obsVars, histVars, bootVars, carVars, auxVars, queueVars>>

\* self.policy.execute_policy(origin_image=csi_image): a new steering, or
\* NoContourException, which execute catches and passes.
ExecutePolicy ==
    /\ cpc = "policy"
    /\ Append1("execute_policy")
    /\ \/ /\ \E s \in Steerings : policySteering' = s
          /\ cpc' = "write"
          /\ UNCHANGED outcome
       \/ /\ cpc' = "idle"
          /\ outcome' = "no_contour"
          /\ UNCHANGED policySteering
    /\ UNCHANGED <<ctorThrottle, policyThrottle, reduce_factor, halt_steering,
                   stop_time, command, seenEvent, seen>>
    /\ UNCHANGED <<shared, obsVars, histVars, bootVars, carVars, auxVars, queueVars>>

\* self.running_gear.read_write_std(throttle=throttle, steering=steering, ...)
WriteCommand ==
    /\ cpc = "write"
    /\ Append1("read_write_std")
    /\ command' = [kind |-> "drive", throttle |-> DriveThrottle,
                   steering |-> policySteering]
    /\ cpc' = "idle"
    /\ outcome' = "drive"
    /\ UNCHANGED <<ctorThrottle, policyThrottle, policySteering, reduce_factor,
                   halt_steering, stop_time, seenEvent, seen>>
    /\ UNCHANGED <<shared, obsVars, histVars, bootVars, carVars, auxVars, queueVars>>

\* except StopException: self.halt_car(self.halt_steering)
HaltCar ==
    /\ cpc = "halt"
    /\ Append1("halt_car")
    /\ command' = HaltCommand
    /\ pending' = [k \in StopKeys |-> FALSE]
    /\ cpc' = "sleep"
    /\ UNCHANGED <<ctorThrottle, policyThrottle, policySteering, reduce_factor,
                   halt_steering, stop_time, seenEvent, seen, outcome>>
    /\ UNCHANGED <<shared, obsVars, lastWritten, bootVars, carVars, auxVars, queueVars>>

\* time.sleep(stop_time); self.policy.start = time.time(); execute returns.
StopSleep ==
    /\ cpc = "sleep"
    /\ Append1("sleep")
    /\ cpc' = "idle"
    /\ outcome' = "stop"
    /\ UNCHANGED <<ctorThrottle, policyThrottle, policySteering, reduce_factor,
                   halt_steering, stop_time, command, seenEvent, seen>>
    /\ UNCHANGED <<shared, obsVars, histVars, bootVars, carVars, auxVars, queueVars>>

\* except Exception as e: print(e); raise e.  Any other exception raised by
\* handle_events, read_image, execute_policy or read_write_std leaves execute;
\* so does one raised by the read_write_std call of halt_car in the
\* StopException handler.  A call that raises has written no command.
ControlRaiseHalting ==
    /\ cpc \in {"h_line", "h_red", "h_stop", "read_image", "policy", "write", "halt"}
    /\ cpc' = "failed"
    /\ outcome' = "raised"
    /\ Append1("halt_car")
    /\ command' = HaltCommand
    /\ UNCHANGED <<ctorThrottle, policyThrottle, policySteering, reduce_factor,
                   halt_steering, stop_time, seenEvent, seen>>
    /\ UNCHANGED <<shared, obsVars, histVars, bootVars, carVars, auxVars, queueVars>>

ControlRaise ==
    /\ cpc \in {"h_line", "h_red", "h_stop", "read_image", "policy", "write", "halt"}
    /\ cpc' = "failed"
    /\ outcome' = "raised"
    /\ UNCHANGED <<ctorThrottle, policyThrottle, policySteering, reduce_factor,
                   halt_steering, stop_time, command, seenEvent, seen, cyc>>
    /\ UNCHANGED <<shared, obsVars, histVars, bootVars, carVars, auxVars, queueVars>>

ControlStep ==
    \/ Setup
    \/ HandleEvents_IsSet
    \/ HandleEvents_HorizontalLine
    \/ HandleEvents_RedLight
    \/ HandleEvents_StopSign
    \/ ReadImage
    \/ ExecutePolicy
    \/ WriteCommand
    \/ HaltCar
    \/ StopSleep

----------------------------------------------------------------------------
\* A plain VLFCar: VLFCar.setup and VLFCar.execute

\* abs(math.cos(2.05 * steering)) in thousandths:
\* cos(0) = 1.000, cos(1.025) = 0.519, cos(2.05) = -0.461, cos(3.075) = -0.998.
AbsCos205(s) ==
    CASE s = 0   -> 1000
      [] s = 50  -> 519
      [] s = 100 -> 461
      [] s = 150 -> 998

CarOthers == <<shared, ctlVars, obsVars, histVars, bootVars, auxVars, queueVars>>

\* VLFCar.setup(throttle): the policy is built with the throttle given.
CarSetup ==
    /\ vpc = "new"
    /\ \E t \in ThrottleArgs : vThrottle' = t
    /\ vSteering' = 0
    /\ vpc' = "idle"
    /\ UNCHANGED <<vCommand, vCyc, vOutcome>>
    /\ UNCHANGED CarOthers

\* execute() is called; image = self.front_csi.read_image(): an image, or
\* NoImageException, which execute catches and passes.
CarReadImageHalting ==
    /\ vpc = "idle"
    /\ vCyc' = <<"read_image">>
    /\ \/ /\ vpc' = "policy"
          /\ vOutcome' = "running"
          /\ UNCHANGED vCommand
       \/ /\ vpc' = "idle"
          /\ vOutcome' = "no_image"
          /\ vCommand' = [kind |-> "halt", throttle |-> HaltThrottle,
                          steering |-> 0]
    /\ UNCHANGED <<vThrottle, vSteering>>
    /\ UNCHANGED CarOthers
CarReadImage ==
    /\ vpc = "idle"
    /\ vCyc' = <<"read_image">>
    /\ \/ /\ vpc' = "policy"
          /\ vOutcome' = "running"
       \/ /\ vpc' = "idle"
          /\ vOutcome' = "no_image"
    /\ UNCHANGED <<vThrottle, vSteering, vCommand>>
    /\ UNCHANGED CarOthers

\* self.policy.execute_policy(image): a new steering, or NoContourException,
\* which execute catches and passes.
CarExecutePolicy ==
    /\ vpc = "policy"
    /\ vCyc' = Append(vCyc, "execute_policy")
    /\ \/ /\ \E s \in Steerings : vSteering' = s
          /\ vpc' = "write"
          /\ UNCHANGED vOutcome
       \/ /\ vpc' = "idle"
          /\ vOutcome' = "no_contour"
          /\ UNCHANGED vSteering
    /\ UNCHANGED <<vThrottle, vCommand>>
    /\ UNCHANGED CarOthers

\* throttle = self.policy.throttle * abs(math.cos(2.05 * steering));
\* self.running_gear.read_write_std(throttle=throttle, steering=steering, ...)
\* The throttle is in 10^-7 like EVLFControl's: the factor 100 stands for the
\* reduce_factor this car does not have.
CarWriteCommand ==
    /\ vpc = "write"
    /\ vCyc' = Append(vCyc, "read_write_std")
    /\ vCommand' = [kind |-> "drive",
                    throttle |-> vThrottle * AbsCos205(vSteering) * 100,
                    steering |-> vSteering]
    /\ vpc' = "idle"
    /\ vOutcome' = "drive"
    /\ UNCHANGED <<vThrottle, vSteering>>
    /\ UNCHANGED CarOthers

CarStep ==
    \/ CarSetup
    \/ CarReadImage
    \/ CarExecutePolicy
    \/ CarWriteCommand

----------------------------------------------------------------------------
\* The observer process: EVLFObserver

\* if value: self.events.set(key) else: self.events.clear(key)
PublishSetOnly(k, v) == IF v THEN EventSet(k) ELSE UNCHANGED shared
Publish(k, v) == IF v THEN EventSet(k) ELSE EventClear(k)

\* rgbd_image = self.rgbd.read_rgb_image().  None: execute returns at once.
\* Otherwise self.pipeline(rgbd_image) computes detection_flags and the loop
\* over its items starts.
ObserverRead ==
    /\ opc = "idle"
    /\ \/ /\ frame' = "none"
          /\ UNCHANGED <<opc, oidx, detection>>
          /\ UNCHANGED auxVars
       \/ /\ frame' = "image"
          /\ \E d \in [Keys -> BOOLEAN] : detection' = d
          /\ oidx' = 1
          /\ opc' = "publish"
          /\ RecordFrame
    /\ UNCHANGED <<shared, ctlVars, histVars, bootVars, carVars, queueVars>>

\* One turn of: for key, value in detection_flags.items()
ObserverPublish ==
    /\ opc = "publish"
    /\ LET k == KeyOrder[oidx]
           v == detection[k] IN
         /\ Publish(k, v)
         /\ lastWritten' = [lastWritten EXCEPT ![k] = v]
         /\ pending' = IF k \in StopKeys /\ v
                         THEN [pending EXCEPT ![k] = TRUE]
                         ELSE pending
    /\ IF oidx = Len(KeyOrder)
         THEN /\ oidx' = 0
              /\ opc' = "idle"
         ELSE /\ oidx' = oidx + 1
              /\ UNCHANGED opc
    /\ UNCHANGED <<frame, detection>>
    /\ UNCHANGED <<ctlVars, bootVars, carVars, auxVars, queueVars>>

\* except Exception as e: print(e); raise e.  The camera read, the pipeline
\* or a flag write raises, and the exception leaves execute.
ObserverRaise ==
    /\ opc \in {"idle", "publish"}
    /\ opc' = "failed"
    /\ UNCHANGED <<oidx, frame, detection>>
    /\ UNCHANGED <<shared, ctlVars, histVars, bootVars, carVars, auxVars, queueVars>>

ObserverStep ==
    \/ ObserverRead
    \/ ObserverPublish

----------------------------------------------------------------------------
\* The bootstrap script: qlabs_setup.setup

\* The arguments of setup: initialPosition (tenths of a metre),
\* initialOrientation (yaw in degrees) and rtModel.
DefaultBootArgs ==
    [position |-> <<166, 20, 0>>, yaw |-> 90, rtModel |-> "QCAR"]
BootArgSets ==
    [position : {<<166, 20, 0>>, <<0, 0, 0>>, <<-12, 5, 1>>},
     yaw      : {0, 90},
     rtModel  : {"QCAR", "QCAR_STUDIO"}]

BootCall(name, args, next) ==
    /\ bootLog' = Append(bootLog, [call |-> name, args |-> args])
    /\ bpc' = next
    /\ UNCHANGED bootArgs
    /\ UNCHANGED <<shared, ctlVars, obsVars, histVars, carVars, auxVars, queueVars>>

\* qlabs.open("localhost"); on any exception: print and quit().
BootOpenNoQuit ==
    /\ bpc = "open"
    /\ \/ /\ qlabsOpen' = "connected"
          /\ BootCall("open", <<"localhost">>, "destroy")
       \/ /\ qlabsOpen' = "refused"
          /\ BootCall("open", <<"localhost">>, "destroy")
BootOpen ==
    /\ bpc = "open"
    /\ \/ /\ qlabsOpen' = "connected"
          /\ BootCall("open", <<"localhost">>, "destroy")
       \/ /\ qlabsOpen' = "refused"
          /\ BootCall("open", <<"localhost">>, "quit")

\* qlabs.destroy_all_spawned_actors()
BootDestroy ==
    /\ bpc = "destroy"
    /\ BootCall("destroy_all_spawned_actors", << >>, "terminate")
    /\ UNCHANGED qlabsOpen

\* QLabsRealTime().terminate_all_real_time_models()
BootTerminate ==
    /\ bpc = "terminate"
    /\ BootCall("terminate_all_real_time_models", << >>, "spawn_qcar")
    /\ UNCHANGED qlabsOpen

\* hqcar.spawn_id(actorNumber=0, ...)
BootSpawnQCar ==
    /\ bpc = "spawn_qcar"
    /\ BootCall("spawn_id", <<bootArgs.position, bootArgs.yaw>>, "spawn_camera")
    /\ UNCHANGED qlabsOpen

\* hcamera.spawn(...)
BootSpawnCamera ==
    /\ bpc = "spawn_camera"
    /\ BootCall("spawn", << >>, "possess")
    /\ UNCHANGED qlabsOpen

\* hqcar.possess()
BootPossess ==
    /\ bpc = "possess"
    /\ BootCall("possess", << >>, "start_model")
    /\ UNCHANGED qlabsOpen

\* QLabsRealTime().start_real_time_model(rtModel); setup returns.
BootStartModel ==
    /\ bpc = "start_model"
    /\ BootCall("start_real_time_model", <<bootArgs.rtModel>>, "done")
    /\ UNCHANGED qlabsOpen

BootStep ==
    \/ BootOpen
    \/ BootDestroy
    \/ BootTerminate
    \/ BootSpawnQCar
    \/ BootSpawnCamera
    \/ BootPossess
    \/ BootStartModel

----------------------------------------------------------------------------
\* A bounded multiprocessing queue fed through core.util.handle_interprocess

MaxItem == 2
QueueCap == 2

Items == 1..MaxItem
Timeouts == {"none", "some"}

QueueOthers == <<shared, ctlVars, obsVars, histVars, bootVars, carVars, auxVars>>

\* handle_interprocess(data_queue, item, block, timeout) is called; a caller
\* whose last call returned may call again.
HCall(item, block, timeout) ==
    /\ hpc \in {"idle", "returned"}
    /\ hpc' = "put"
    /\ hArgs' = [item |-> item, block |-> block, timeout |-> timeout]
    /\ UNCHANGED <<queue, hasConsumer, hRaised>>
    /\ UNCHANGED QueueOthers

\* try: data_queue.put(item, block, timeout) with room in the queue: the
\* item becomes the newest element and handle_interprocess returns.  A
\* blocking put without timeout on a full queue waits for room.
HPut ==
    /\ hpc = "put"
    /\ Len(queue) < QueueCap
    /\ queue' = Append(queue, hArgs.item)
    /\ hpc' = "returned"
    /\ UNCHANGED <<hasConsumer, hArgs, hRaised>>
    /\ UNCHANGED QueueOthers

\* data_queue.put on a full queue, non-blocking or with its timeout expired,
\* raises Full.
HPutFull ==
    /\ hpc = "put"
    /\ Len(queue) >= QueueCap
    /\ ~hArgs.block \/ hArgs.timeout # "none"
    /\ hpc' = "except"
    /\ UNCHANGED <<queue, hasConsumer, hArgs, hRaised>>
    /\ UNCHANGED QueueOthers

\* except Queue.Full: Queue is multiprocessing.Queue, a method of the default
\* context, which has no attribute Full; matching the handler raises
\* AttributeError, which leaves handle_interprocess.  get_nowait and the
\* second put are never reached.
HExcept ==
    /\ hpc = "except"
    /\ hpc' = "raised"
    /\ hRaised' = "AttributeError"
    /\ UNCHANGED <<queue, hasConsumer, hArgs>>
    /\ UNCHANGED QueueOthers

\* Another process takes the oldest item from data_queue.
QGet ==
    /\ hasConsumer
    /\ queue # << >>
    /\ queue' = Tail(queue)
    /\ UNCHANGED <<hasConsumer, hpc, hArgs, hRaised>>
    /\ UNCHANGED QueueOthers

HandleInterprocess ==
    \/ \E item \in Items, block \in BOOLEAN, timeout \in Timeouts :
          HCall(item, block, timeout)
    \/ HPut
    \/ HPutFull
    \/ HExcept

----------------------------------------------------------------------------
\* The state after EVLFControl(event_wrapper, throttle=t), EVLFObserver(events,
\* file_path) and EventWrapper() are constructed and before the script runs.
\* The shared structure and the observer after the observer has published
\* the detection flags f of a frame (fr = "image"), or before its first
\* frame (fr = "none", every flag false).
InitFlags(f, fr) ==
    /\ event = (\E k \in Keys : f[k])
    /\ event_types = f
    /\ lastWritten = f
    /\ pending = [k \in StopKeys |-> f[k]]
    /\ detection = f
    /\ frame = fr
    /\ opc = "idle"
    /\ oidx = 0

InitLoops ==
    /\ cpc = "new"
    /\ policyThrottle = 0
    /\ policySteering = 0
    /\ reduce_factor = FullFactor
    /\ halt_steering = 0
    /\ stop_time = 0
    /\ command = NoCommand
    /\ seenEvent = FALSE
    /\ seen = [k \in Keys |-> FALSE]
    /\ cyc = << >>
    /\ outcome = "none"
    /\ qlabsOpen = "untried"
    /\ bpc = "open"
    /\ bootLog = << >>

InitProcesses ==
    /\ InitFlags([k \in Keys |-> FALSE], "none")
    /\ InitLoops

\* A VLFCar after VLFCar().
InitCar ==
    /\ vpc = "new"
    /\ vThrottle = 0
    /\ vSteering = 0
    /\ vCommand = NoCommand
    /\ vCyc = << >>
    /\ vOutcome = "none"

\* No history recorded.
InitHistory(h) ==
    /\ history = h
    /\ startFlags = [k \in Keys |-> FALSE]
    /\ seenAge = [k \in Keys |-> Unread]
    /\ quiet = TRUE

\* An empty data_queue and no call of handle_interprocess yet.
InitQueue ==
    /\ queue = << >>
    /\ hpc = "idle"
    /\ hArgs = [item |-> 0, block |-> TRUE, timeout |-> "none"]
    /\ hRaised = "none"

Init ==
    /\ InitProcesses
    /\ ctorThrottle \in ThrottleArgs
    /\ bootArgs = DefaultBootArgs
    /\ InitCar
    /\ InitHistory("none")
    /\ InitQueue
    /\ hasConsumer = FALSE

\* The control process and the observer process, interleaved in every way.
Next ==
    \/ ControlStep
    \/ ControlRaise
    \/ ObserverStep
    \/ ObserverRaise

Spec == Init /\ [][Next]_vars

\* The two loops alone, neither raising an unexpected exception, each
\* scheduled again and again (the while loops of the two processes).
NextRunning ==
    \/ ControlStep
    \/ ObserverStep

\* The constructor's throttle argument is read by no step of either loop.
LiveInit ==
    /\ InitProcesses
    /\ ctorThrottle = DefaultThrottle
    /\ bootArgs = DefaultBootArgs
    /\ InitCar
    /\ InitHistory("none")
    /\ InitQueue
    /\ hasConsumer = FALSE

LiveSpec ==
    /\ LiveInit
    /\ [][NextRunning]_vars
    /\ WF_vars(ControlStep)
    /\ WF_vars(ObserverStep)

\* The control loop and a plain VLFCar, each driving its own car, while the
\* observer is not scheduled: the flags stay as its last frame left them.
DriveInit ==
    /\ \E f \in [Keys -> BOOLEAN] : InitFlags(f, "image")
    /\ InitLoops
    /\ ctorThrottle = DefaultThrottle
    /\ bootArgs = DefaultBootArgs
    /\ InitCar
    /\ InitHistory("none")
    /\ InitQueue
    /\ hasConsumer = FALSE

DriveNext ==
    \/ ControlStep
    \/ ControlRaise
    \/ CarStep

DriveSpec == DriveInit /\ [][DriveNext]_vars

\* The two loops with the flags at the start of each control cycle recorded.
StartInit ==
    /\ InitProcesses
    /\ ctorThrottle = DefaultThrottle
    /\ bootArgs = DefaultBootArgs
    /\ InitCar
    /\ InitHistory("start_flags")
    /\ InitQueue
    /\ hasConsumer = FALSE

StartSpec == StartInit /\ [][NextRunning]_vars

\* The two loops with the frame each flag read comes from recorded.
FrameInit ==
    /\ InitProcesses
    /\ ctorThrottle = DefaultThrottle
    /\ bootArgs = DefaultBootArgs
    /\ InitCar
    /\ InitHistory("frames")
    /\ InitQueue
    /\ hasConsumer = FALSE

FrameSpec == FrameInit /\ [][NextRunning]_vars

\* The bootstrap script run on its own, for every choice of its arguments.
BootInit ==
    /\ InitProcesses
    /\ ctorThrottle = DefaultThrottle
    /\ bootArgs \in BootArgSets
    /\ InitCar
    /\ InitHistory("none")
    /\ InitQueue
    /\ hasConsumer = FALSE

BootSpec == BootInit /\ [][BootStep]_vars

\* One producer calling handle_interprocess, with or without a consumer.
QueueInit ==
    /\ InitProcesses
    /\ ctorThrottle = DefaultThrottle
    /\ bootArgs = DefaultBootArgs
    /\ InitCar
    /\ InitHistory("none")
    /\ InitQueue
    /\ hasConsumer \in BOOLEAN

QueueNext == HandleInterprocess \/ QGet

QueueSpec == QueueInit /\ [][QueueNext]_vars

----------------------------------------------------------------------------
\* Vocabulary of the properties

\* How many times a call appears in the current cycle.
Count(tag) == Cardinality({i \in DOMAIN cyc : cyc[i] = tag})

\* The last call of execute has returned to its caller.
CycleDone == cpc = "idle" /\ outcome \notin {"none", "running"}

\* handle_events has returned or raised StopException in the current cycle.
HandledEvents ==
    \/ cpc \in {"read_image", "policy", "write", "halt", "sleep"}
    \/ CycleDone

\* handle_events found the event set and red_light or stop_sign true.  When
\* the event was set, red_light was read in this cycle, and stop_sign too if
\* red_light was false.
StopSeen == seenEvent /\ (seen["red_light"] \/ seen["stop_sign"])

\* The reduce_factor that the flags read in this cycle call for.
ExpectedFactor ==
    IF seenEvent /\ seen["horizontal_line"] THEN ReducedFactor ELSE FullFactor

DriveCycle == <<"handle_events", "read_image", "execute_policy", "read_write_std">>
StopCycle  == <<"handle_events", "halt_car", "sleep">>

----------------------------------------------------------------------------
\* C1 (as stated): every call of execute that returns has executed the policy
\* exactly once, whatever the event and the flags were.
C1_PolicyExactlyOnce ==
    CycleDone => Count("execute_policy") = 1

\* C1 (amended): a call of execute executes the policy at most once; a call
\* that returns has executed it not at all when handle_events found the event
\* set with red_light or stop_sign true or when read_image raised
\* NoImageException, and exactly once otherwise.
C1_PolicyAtMostOnce ==
    /\ Count("execute_policy") <= 1
    /\ CycleDone =>
         IF StopSeen \/ outcome = "no_image"
           THEN Count("execute_policy") = 0
           ELSE Count("execute_policy") = 1

C1_Witness ==
    /\ CycleDone
    /\ StopSeen
    /\ outcome = "stop"
    /\ Count("execute_policy") = 0

\* C2: a cycle in which nothing is raised makes its calls in the order
\* handle_events, read_image, execute_policy, read_write_std, each once, and
\* the throttle written is policy.throttle * |cos(2*steering)| * the
\* reduce_factor called for by the flags read in that same cycle.
C2_DriveCycleOrder ==
    (CycleDone /\ outcome = "drive") =>
        /\ cyc = DriveCycle
        /\ command = [kind     |-> "drive",
                      throttle |-> policyThrottle * AbsCos2(policySteering)
                                     * ExpectedFactor,
                      steering |-> policySteering]

\* A full-speed cycle after an earlier cycle that read horizontal_line true.
C2_Witness ==
    /\ CycleDone
    /\ outcome = "drive"
    /\ ~seenEvent
    /\ seen["horizontal_line"]
    /\ command.throttle = policyThrottle * AbsCos2(policySteering) * FullFactor

\* C3: when handle_events finds the event set and red_light or stop_sign
\* true, the cycle reads no image, does not execute the policy, writes one
\* command, with throttle 0, pauses and returns; the StopException does not
\* leave execute (such a cycle fails only when halt_car itself raises).
C3_StopCycle ==
    /\ cpc = "halt" => cyc = <<"handle_events">>
    /\ cpc = "sleep" => cyc = <<"handle_events", "halt_car">>
    /\ (cpc = "sleep" \/ (CycleDone /\ StopSeen)) =>
          /\ command.kind = "halt"
          /\ command.throttle = 0
    /\ (CycleDone /\ StopSeen) =>
          /\ outcome = "stop"
          /\ cyc = StopCycle
    /\ (cpc = "failed" /\ stop_time # 0) => cyc = <<"handle_events">>

C3_Witness ==
    /\ CycleDone
    /\ StopSeen
    /\ ~seen["red_light"]
    /\ cyc = StopCycle
    /\ command.throttle = 0
    /\ stop_time = StopSignStopTime

\* C4 (as stated): whenever the observer publishes red_light or stop_sign,
\* the control loop eventually writes a halt command.
C4_PublishedLeadsToHalt ==
    \A k \in StopKeys : pending[k] ~> ~pending[k]

\* C4 (amended): whenever the observer publishes red_light or stop_sign, then
\* eventually the control loop writes a halt command or the observer has
\* cleared the flag again.
C4_PublishedLeadsToHaltOrCleared ==
    \A k \in StopKeys : pending[k] ~> (~pending[k] \/ ~event_types[k])

\* A halt command written for a stop_sign that is still published.
C4_Witness ==
    /\ cpc = "sleep"
    /\ ~seen["red_light"]
    /\ seen["stop_sign"]
    /\ event_types["stop_sign"]
    /\ ~pending["stop_sign"]
    /\ command.kind = "halt"

\* C5: each flag read of handle_events returns the value the observer wrote
\* last for that key (the initial value if it wrote none), and no step of
\* the control process changes the shared structure.
C5_LastWriteWins ==
    [][ /\ (cpc = "h_line" /\ cpc' = "h_red") =>
              seen'["horizontal_line"] = lastWritten["horizontal_line"]
        /\ (cpc = "h_red" /\ cpc' \in {"h_stop", "halt"}) =>
              seen'["red_light"] = lastWritten["red_light"]
        /\ (cpc = "h_stop" /\ cpc' \in {"read_image", "halt"}) =>
              seen'["stop_sign"] = lastWritten["stop_sign"]
        /\ cpc' # cpc => (event_types' = event_types /\ event' = event) ]_vars

\* red_light was published true and cleared again with no halt in between,
\* and control has just read it false while the observer is publishing.
C5_Witness ==
    /\ cpc = "h_stop"
    /\ ~seen["red_light"]
    /\ pending["red_light"]
    /\ ~lastWritten["red_light"]
    /\ opc = "publish"

\* C6: after an observer cycle that read a frame, every shared flag equals
\* its detection value; a cycle that read None changes neither the
\* detection flags nor the shared structure.
C6_FlagsFollowDetection ==
    /\ []((opc = "idle" /\ frame = "image") =>
            \A k \in Keys : event_types[k] = detection[k])
    /\ [][(opc = "idle" /\ opc' = "idle" /\ frame' = "none") =>
            (event_types' = event_types /\ event' = event
               /\ detection' = detection)]_vars

\* red_light was published in an earlier frame and is cleared by this one.
C6_Witness ==
    /\ opc = "idle"
    /\ frame = "image"
    /\ pending["red_light"]
    /\ ~detection["red_light"]
    /\ ~event_types["red_light"]
    /\ detection["stop_sign"]

\* C7: the bootstrap makes its calls at most once each, in the order open,
\* destroy_all_spawned_actors, terminate_all_real_time_models, spawn_id,
\* spawn, possess, start_real_time_model, and then stops; when open fails it
\* quits with no later call made.
BootOrder ==
    <<"open", "destroy_all_spawned_actors", "terminate_all_real_time_models",
      "spawn_id", "spawn", "possess", "start_real_time_model">>

BootCalls == [i \in DOMAIN bootLog |-> bootLog[i].call]

C7_BootOrdered ==
    /\ Len(bootLog) <= Len(BootOrder)
    /\ BootCalls = SubSeq(BootOrder, 1, Len(bootLog))
    /\ qlabsOpen = "refused" => (bpc = "quit" /\ BootCalls = <<"open">>)
    /\ bpc = "done" => BootCalls = BootOrder
    /\ bpc \in {"done", "quit"} => ~ENABLED BootStep

C7_Witness ==
    /\ bpc = "done"
    /\ qlabsOpen = "connected"
    /\ Len(bootLog) = Len(BootOrder)
    /\ bootLog[4].args = <<bootArgs.position, bootArgs.yaw>>

\* C8 (as stated): after EVLFControl(event_wrapper, throttle=t) and setup(),
\* the policy throttle every command is computed from is t.
C8_CtorThrottleDrives ==
    /\ cpc # "new" => policyThrottle = ctorThrottle
    /\ (CycleDone /\ outcome = "drive") =>
         command.throttle = ctorThrottle * AbsCos2(policySteering) * ExpectedFactor

\* C9: with the event set, red_light true halts with the policy's current
\* steering and a stop time of 0.1, whatever stop_sign is; red_light false
\* and stop_sign true halts with steering 0.0 and a stop time of 3.
C9_RedLightFirst ==
    /\ (cpc \in {"halt", "sleep"} \/ (CycleDone /\ outcome = "stop")) =>
         /\ seenEvent
         /\ IF seen["red_light"]
              THEN /\ halt_steering = policySteering
                   /\ stop_time = RedLightStopTime
              ELSE /\ seen["stop_sign"]
                   /\ halt_steering = 0
                   /\ stop_time = StopSignStopTime
    /\ (cpc = "sleep" \/ (CycleDone /\ outcome = "stop")) =>
         /\ command.kind = "halt"
         /\ command.steering = halt_steering

\* red_light and stop_sign both published; the halt keeps the policy's steering.
C9_Witness ==
    /\ cpc = "sleep"
    /\ seen["red_light"]
    /\ event_types["red_light"]
    /\ event_types["stop_sign"]
    /\ policySteering # 0
    /\ command.steering = policySteering
    /\ stop_time = RedLightStopTime

\* C10: reduce_factor is 0.67 or 1.0, and once handle_events has returned or
\* raised StopException it is 0.67 exactly when the event was set and
\* horizontal_line was read true in that call.
C10_ReduceFactor ==
    /\ reduce_factor \in {ReducedFactor, FullFactor}
    /\ HandledEvents =>
         (reduce_factor = ReducedFactor <=> (seenEvent /\ seen["horizontal_line"]))

\* The slowdown dropped: horizontal_line was read true in an earlier cycle
\* and this cycle finds the event set and horizontal_line false, then stops.
C10_Witness ==
    /\ cpc = "halt"
    /\ seenEvent
    /\ ~seen["horizontal_line"]
    /\ reduce_factor = FullFactor
    /\ command.kind = "drive"
    /\ command.throttle = policyThrottle * AbsCos2(command.steering) * ReducedFactor

----------------------------------------------------------------------------
\* C11: a cycle in which read_image raises NoImageException or execute_policy
\* raises NoContourException, of EVLFControl.execute and of VLFCar.execute
\* alike, makes no actuator call (no read_write_std, no halt_car) and returns
\* to its caller, so that the next cycle can start; the command changes only
\* in the write and halt steps, so the last command written stays in effect.
C11_SkippedCycleWritesNothing ==
    /\ []((CycleDone /\ outcome \in {"no_image", "no_contour"}) =>
            /\ Count("read_write_std") = 0
            /\ Count("halt_car") = 0
            /\ ENABLED HandleEvents_IsSet)
    /\ []((vpc = "idle" /\ vOutcome \in {"no_image", "no_contour"}) =>
            /\ \A i \in DOMAIN vCyc : vCyc[i] # "read_write_std"
            /\ ENABLED CarReadImage)
    /\ [][/\ command' # command => cpc \in {"write", "halt"}
          /\ vCommand' # vCommand => vpc = "write"]_vars

\* Both cars skipped a cycle while a drive command is in effect.
C11_Witness ==
    /\ CycleDone
    /\ outcome = "no_contour"
    /\ command.kind = "drive"
    /\ vpc = "idle"
    /\ vOutcome = "no_image"
    /\ vCommand.kind = "drive"

----------------------------------------------------------------------------
\* The event was set and red_light or stop_sign was true when the cycle started.
StartStop == seenEvent /\ (startFlags["red_light"] \/ startFlags["stop_sign"])

\* C12 (as stated): a cycle that starts with the event set and red_light or
\* stop_sign true executes no policy and ends in a halt; a cycle that starts
\* otherwise executes the policy and writes a drive command.
C12_HaltWhileFlagged ==
    CycleDone =>
        IF StartStop
          THEN /\ Count("execute_policy") = 0
               /\ outcome = "stop"
               /\ command.throttle = 0
          ELSE /\ Count("execute_policy") = 1
               /\ outcome = "drive"
               /\ command.kind = "drive"

\* C12 (amended): a cycle in which handle_events reads the event set and
\* red_light or stop_sign true is a halt cycle, whatever the cycles before it
\* were: no policy, one command, with throttle 0.  A cycle in which it reads
\* the event unset or both flags false makes no halt and reads the image;
\* it executes the policy and writes a drive command unless NoImageException
\* or NoContourException ends it.
C12_HaltWhileReadFlagged ==
    CycleDone =>
        IF StopSeen
          THEN /\ outcome = "stop"
               /\ Count("execute_policy") = 0
               /\ Count("halt_car") = 1
               /\ command.kind = "halt"
               /\ command.throttle = 0
          ELSE /\ outcome \in {"drive", "no_image", "no_contour"}
               /\ Count("halt_car") = 0
               /\ Count("read_image") = 1
               /\ outcome = "no_image" <=> Count("execute_policy") = 0
               /\ outcome = "drive" <=> Count("read_write_std") = 1
               /\ outcome = "drive" => command.kind = "drive"

\* A stop_sign read true again after the last command written was a halt:
\* the cycle is on its way to another halt.
C12_Witness ==
    /\ cpc = "halt"
    /\ command.kind = "halt"
    /\ ~seen["red_light"]
    /\ seen["stop_sign"]
    /\ startFlags["stop_sign"]
    /\ stop_time = StopSignStopTime

----------------------------------------------------------------------------
\* The keys the last handle_events call has read.
ReadKeys == {k \in Keys : seenAge[k] # Unread}

\* Every value the call read was written in the same frame.
SameFrame == \A j, k \in ReadKeys : seenAge[j] = seenAge[k]

\* handle_events has found the event set and has made its last flag read.
FlagsRead == seenEvent /\ cpc \in {"read_image", "halt"}

\* C13 (as stated): the flags one handle_events call acts on all come from
\* the same observer frame, and a call that saw the event set finds some
\* flag true.
C13_OneFrame ==
    FlagsRead =>
        /\ SameFrame
        /\ \E k \in ReadKeys : seen[k]

\* C13 (amended): when the observer stays outside its loop over the flags
\* from the call's event test to its last flag read, the flags the call acts
\* on all come from the frame published last and, the event being set, one
\* of them is true; every such call reads horizontal_line and red_light.
C13_OneFrameWhenQuiet ==
    FlagsRead =>
        /\ quiet =>
             /\ \A k \in ReadKeys : seenAge[k] = 0
             /\ \E k \in ReadKeys : seen[k]
        /\ {"horizontal_line", "red_light"} \subseteq ReadKeys

C13_Witness ==
    /\ FlagsRead
    /\ quiet
    /\ cpc = "read_image"
    /\ seen["horizontal_line"]
    /\ ReadKeys = Keys
    /\ SameFrame

----------------------------------------------------------------------------
\* The observer has written the flags before position oidx of its loop from
\* the current frame; oidx is 0 outside the loop.
WrittenThisFrame == {k \in Keys : oidx # 0 /\ KeyPos(k) < oidx}

\* C14: an exception other than NoContourException, NoImageException and
\* StopException leaves EVLFControl.execute with no command written in that
\* cycle and the last command left as it was, and the control loop stops; an
\* exception leaves EVLFObserver.execute with the flags already written from
\* the current frame in place, and no flag changes at or after the raise.
C14_RaiseWritesNothing ==
    /\ [](cpc = "failed" =>
            /\ outcome = "raised"
            /\ Count("read_write_std") = 0
            /\ Count("halt_car") = 0
            /\ ~ENABLED ControlStep)
    /\ [](opc = "failed" =>
            /\ \A k \in WrittenThisFrame : event_types[k] = detection[k]
            /\ event_types = lastWritten
            /\ ~ENABLED ObserverStep)
    /\ [][/\ cpc' = "failed" => command' = command
          /\ opc' = "failed" => UNCHANGED shared]_vars

C14_Witness ==
    /\ cpc = "failed"
    /\ Count("execute_policy") = 1
    /\ command.kind = "drive"
    /\ opc = "failed"
    /\ oidx = 2
    /\ event_types["horizontal_line"] = detection["horizontal_line"]
    /\ event_types["red_light"] # detection["red_light"]

----------------------------------------------------------------------------
\* The call of handle_interprocess in progress ends with this step.
HEnds == hpc \in {"put", "except"} /\ hpc' \in {"returned", "raised"}

\* C15 (as stated): with no consumer, a call of handle_interprocess returns
\* with the item appended, after the oldest item was removed when the queue
\* was full; the queue never holds more than its capacity.
C15_DropOldest ==
    /\ [](Len(queue) <= QueueCap)
    /\ [][(~hasConsumer /\ HEnds) =>
            /\ hpc' = "returned"
            /\ queue' = Append(IF Len(queue) < QueueCap THEN queue
                                                       ELSE Tail(queue),
                               hArgs.item)]_vars

\* C16 (as stated): no call of handle_interprocess ends with an exception,
\* and while a call is in progress it or the consumer can take a step,
\* whatever block and timeout are and whether or not there is a consumer.
C16_AlwaysReturns ==
    /\ hRaised = "none"
    /\ hpc \in {"put", "except"} => ENABLED QueueNext

====
